---- MODULE Spec2Model ----
(***************************************************************************)
(* Model of src/app.py: the Synergy half-hourly usage pipeline             *)
(* (upload, concatenation and de-duplication, process_synergy_data,        *)
(* process_sigenergy_data and the date-range filter).                      *)
(*                                                                         *)
(* Representation                                                          *)
(*   - a DataFrame is a sequence of rows, a row is a record keyed by the   *)
(*     column names; the pandas index label is the field "index";          *)
(*   - a numeric cell is NaN (the empty tuple) or Val(n) (a 1-tuple);      *)
(*     energies are integers, rates and charges are the source's decimal   *)
(*     literals scaled by Scale (4 decimal places), so products and sums   *)
(*     are exact;                                                          *)
(*   - a string of the Time column is a tuple of characters, a digit being *)
(*     its value and ':' being Colon (which, as in ASCII, sorts after      *)
(*     '9');                                                               *)
(*   - the Date string "DD/MM/YYYY" is the tuple <<DD, MM, YYYY>>, the     *)
(*     solar export's date is the integer YYYYMMDD, and a Timestamp is     *)
(*     <<YYYY, MM, DD>>.                                                   *)
(***************************************************************************)
EXTENDS Integers, Sequences, FiniteSets, TLC

VARIABLES pc,
          uploaded_synergy_files, synergy,
          uploaded_sigenergy_file, sigenergy,
          data, supply_charge, tou_costs, data_daily,
          data_synergy_halfhour, data_synergy_daily,
          data_sigenergy_daily,
          input_date_range,
          data_synergy_daily_filtered, data_sigenergy_daily_filtered

vars == <<pc, uploaded_synergy_files, synergy, uploaded_sigenergy_file,
          sigenergy, data, supply_charge, tou_costs, data_daily,
          data_synergy_halfhour, data_synergy_daily, data_sigenergy_daily,
          input_date_range, data_synergy_daily_filtered,
          data_sigenergy_daily_filtered>>

(***************************************************************************)
(* Bounds of the model                                                     *)
(***************************************************************************)
MaxRows == 2
MaxFiles == 2

(***************************************************************************)
(* Cells, strings and dates                                                *)
(***************************************************************************)
Scale == 10000
Colon == 10

NaN == <<>>
Val(n) == <<n>>
IsNa(x) == x = NaN

Add(a, b) == IF IsNa(a) \/ IsNa(b) THEN NaN ELSE Val(a[1] + b[1])
Sub(a, b) == IF IsNa(a) \/ IsNa(b) THEN NaN ELSE Val(a[1] - b[1])
Mul(a, b) == IF IsNa(a) \/ IsNa(b) THEN NaN ELSE Val(a[1] * b[1])

RECURSIVE StrLess(_, _)
StrLess(a, b) ==
  IF b = <<>> THEN FALSE
  ELSE IF a = <<>> THEN TRUE
  ELSE IF Head(a) < Head(b) THEN TRUE
  ELSE IF Head(a) > Head(b) THEN FALSE
  ELSE StrLess(Tail(a), Tail(b))

TsLess(a, b) ==
  \/ a[1] < b[1]
  \/ a[1] = b[1] /\ a[2] < b[2]
  \/ a[1] = b[1] /\ a[2] = b[2] /\ a[3] < b[3]

TsLeq(a, b) == a = b \/ TsLess(a, b)

Repeat(v, n) == [i \in 1..n |-> v]

DropColumn(r, c) == [k \in DOMAIN r \ {c} |-> r[k]]

(***************************************************************************)
(* Uploads: pd.concat(..., ignore_index=True).drop_duplicates()            *)
(***************************************************************************)
RECURSIVE Flatten(_)
Flatten(frames) ==
  IF frames = <<>> THEN <<>> ELSE Head(frames) \o Flatten(Tail(frames))

Concat(frames) ==
  LET rows == Flatten(frames)
  IN [i \in 1..Len(rows) |-> rows[i] @@ [index |-> i - 1]]

DropDuplicates_KeepAll(df) == df

RECURSIVE DropDuplicates(_)
DropDuplicates(df) ==
  IF df = <<>> THEN <<>>
  ELSE LET n == Len(df)
           init == DropDuplicates(SubSeq(df, 1, n - 1))
           last == df[n]
       IN IF \E i \in 1..(n - 1) :
               DropColumn(df[i], "index") = DropColumn(last, "index")
          THEN init
          ELSE Append(init, last)

(***************************************************************************)
(* process_synergy_data, lines 43-57: columns and combined usage           *)
(***************************************************************************)
Columns(df) == IF df = <<>> THEN {} ELSE DOMAIN df[1]

AddMissingColumn(df, col) ==
  IF col \in Columns(df) THEN df
  ELSE [i \in 1..Len(df) |-> df[i] @@ (col :> Val(0))]

SelectAndRename(r) ==
  [index |-> r["index"],
   date |-> r["Date"],
   time |-> r["Time"],
   usage_1 |-> r["Usage already billed"],
   usage_2 |-> r["Usage not yet billed"],
   generation |-> r["Generation"],
   meter_reading_status |-> r["Meter reading status"]]

FillNa_Propagate(v) == v

FillNa(v) == IF IsNa(v) THEN Val(0) ELSE v

FillUsage(r) ==
  [r EXCEPT !.usage_1 = FillNa(@), !.usage_2 = FillNa(@)]

CombinedRow(r) ==
  [index |-> r.index,
   date |-> r.date,
   time |-> r.time,
   syn_usage |-> Add(r.usage_1, r.usage_2),
   syn_generation |-> r.generation]

CombineUsageFrame(df) ==
  [i \in 1..Len(df) |-> CombinedRow(FillUsage(SelectAndRename(df[i])))]

(***************************************************************************)
(* lines 59-64: date parsing, time padding, sort                           *)
(***************************************************************************)
ToDatetimeDMY(s) == <<s[3], s[2], s[1]>>

NormalizeTime_AlwaysPad(t) == <<0>> \o t

NormalizeTime(t) == IF Len(t) = 4 THEN <<0>> \o t ELSE t

FormatFrame(df) ==
  [i \in 1..Len(df) |->
     [df[i] EXCEPT !.date = ToDatetimeDMY(@), !.time = NormalizeTime(@)]]

KeyLess(r, s) ==
  \/ TsLess(r.date, s.date)
  \/ r.date = s.date /\ StrLess(r.time, s.time)

RECURSIVE InsertRow(_, _)
InsertRow(r, s) ==
  IF s = <<>> THEN <<r>>
  ELSE IF KeyLess(r, Head(s)) THEN <<r>> \o s
  ELSE <<Head(s)>> \o InsertRow(r, Tail(s))

SortValues_Unsorted(df) == df

RECURSIVE SortValues(_)
SortValues(df) ==
  IF df = <<>> THEN <<>>
  ELSE InsertRow(df[Len(df)], SortValues(SubSeq(df, 1, Len(df) - 1)))

(***************************************************************************)
(* lines 67-82: the supply charge and time-of-use tables                   *)
(***************************************************************************)
HomePlanCharge == 1160505
MiddaySaverCharge == 1292269
EvAddOnCharge == 1292269

SupplyChargeTable ==
  << [plan |-> "home_plan", supply_charge |-> HomePlanCharge],
     [plan |-> "midday_saver", supply_charge |-> MiddaySaverCharge],
     [plan |-> "electric_vehicle_add_on", supply_charge |-> EvAddOnCharge] >>

HomePlanRate == 323719
OffPeakRate == 236916
MiddayRate == 86151
PeakRate == 538446
EvOvernightRate == 193841
DebsLow == 2 * Scale
DebsHigh == 10 * Scale

FormatHM(h, m) == <<h \div 10, h % 10, Colon, m \div 10, m % 10>>

Hours == 24
HalfHours == <<0, 30>>

TouTimes_HourOnly ==
  [k \in 1..(Hours * Len(HalfHours)) |->
     FormatHM((k - 1) \div Len(HalfHours), HalfHours[1])]

TouTimes ==
  [k \in 1..(Hours * Len(HalfHours)) |->
     FormatHM((k - 1) \div Len(HalfHours),
              HalfHours[((k - 1) % Len(HalfHours)) + 1])]

MiddaySaverRates_Shifted ==
  Repeat(OffPeakRate, 17) \o Repeat(MiddayRate, 13)
    \o Repeat(PeakRate, 12) \o Repeat(OffPeakRate, 6)

MiddaySaverRates ==
  Repeat(OffPeakRate, 18) \o Repeat(MiddayRate, 12)
    \o Repeat(PeakRate, 12) \o Repeat(OffPeakRate, 6)

EvAddOnRates_FiveBands ==
  Repeat(EvOvernightRate, 12) \o Repeat(OffPeakRate, 6)
    \o Repeat(MiddayRate, 12) \o Repeat(PeakRate, 12)
    \o Repeat(OffPeakRate, 6)

EvAddOnRates ==
  Repeat(EvOvernightRate, 12) \o Repeat(OffPeakRate, 6)
    \o Repeat(MiddayRate, 12) \o Repeat(PeakRate, 12)
    \o Repeat(OffPeakRate, 4) \o Repeat(EvOvernightRate, 2)

DebsRates == Repeat(DebsLow, 30) \o Repeat(DebsHigh, 12) \o Repeat(DebsLow, 6)

PadTouTime(x) == IF Len(x) = 5 THEN x ELSE <<0>> \o x

TouCostsTable ==
  [k \in 1..Len(TouTimes) |->
     [time |-> PadTouTime(TouTimes[k]),
      home_plan |-> Val(HomePlanRate),
      midday_saver |-> Val(MiddaySaverRates[k]),
      electric_vehicle_add_on |-> Val(EvAddOnRates[k]),
      debs |-> Val(DebsRates[k])]]

(***************************************************************************)
(* line 85: data.merge(tou_costs, on='time', how='left')                   *)
(***************************************************************************)
JoinedRow(l, t) ==
  [date |-> l.date, time |-> l.time,
   syn_usage |-> l.syn_usage, syn_generation |-> l.syn_generation,
   home_plan |-> t.home_plan, midday_saver |-> t.midday_saver,
   electric_vehicle_add_on |-> t.electric_vehicle_add_on, debs |-> t.debs]

NaTariff ==
  [home_plan |-> NaN, midday_saver |-> NaN,
   electric_vehicle_add_on |-> NaN, debs |-> NaN]

MatchRows(l, right) ==
  LET m == SelectSeq(right, LAMBDA t : t.time = l.time)
  IN IF m = <<>> THEN << JoinedRow(l, NaTariff) >>
     ELSE [i \in 1..Len(m) |-> JoinedRow(l, m[i])]

RECURSIVE MergeLeft(_, _)
MergeLeft(left, right) ==
  IF left = <<>> THEN <<>>
  ELSE MatchRows(Head(left), right) \o MergeLeft(Tail(left), right)

(***************************************************************************)
(* lines 87-91: cost columns                                               *)
(***************************************************************************)
CostRow(r) ==
  r @@ [home_plan_costs |-> Mul(r.home_plan, r.syn_usage),
        midday_saver_costs |-> Mul(r.midday_saver, r.syn_usage),
        electric_vehicle_add_on_costs |->
            Mul(r.electric_vehicle_add_on, r.syn_usage),
        debs_feed_in_tariff |-> Mul(r.debs, r.syn_generation)]

CalculateCostsFrame(df) == [i \in 1..Len(df) |-> CostRow(df[i])]

(***************************************************************************)
(* lines 93-106: daily aggregation and supply charges                      *)
(***************************************************************************)
RECURSIVE SortedTimestamps(_)
SortedTimestamps(S) ==
  IF S = {} THEN <<>>
  ELSE LET m == CHOOSE x \in S : \A y \in S : TsLeq(x, y)
       IN <<m>> \o SortedTimestamps(S \ {m})

RECURSIVE SumSkipNa_Propagate(_)
SumSkipNa_Propagate(cells) ==
  IF cells = <<>> THEN Val(0)
  ELSE Add(SumSkipNa_Propagate(SubSeq(cells, 1, Len(cells) - 1)),
           cells[Len(cells)])

RECURSIVE SumSkipNa(_)
SumSkipNa(cells) ==
  IF cells = <<>> THEN Val(0)
  ELSE LET rest == SumSkipNa(SubSeq(cells, 1, Len(cells) - 1))
           last == cells[Len(cells)]
       IN IF IsNa(last) THEN rest ELSE Add(rest, last)

ColumnOf(df, c) == [i \in 1..Len(df) |-> df[i][c]]

GroupByDateSum(df) ==
  LET keys == SortedTimestamps({df[i].date : i \in 1..Len(df)})
  IN [k \in 1..Len(keys) |->
        LET g == SelectSeq(df, LAMBDA r : r.date = keys[k])
        IN [date |-> keys[k],
            syn_usage |-> SumSkipNa(ColumnOf(g, "syn_usage")),
            syn_generation |-> SumSkipNa(ColumnOf(g, "syn_generation")),
            home_plan_costs |-> SumSkipNa(ColumnOf(g, "home_plan_costs")),
            midday_saver_costs |->
                SumSkipNa(ColumnOf(g, "midday_saver_costs")),
            electric_vehicle_add_on_costs |->
                SumSkipNa(ColumnOf(g, "electric_vehicle_add_on_costs")),
            debs_feed_in_tariff |->
                SumSkipNa(ColumnOf(g, "debs_feed_in_tariff"))]]

ChargeOf(table, plan) ==
  SelectSeq(table, LAMBDA r : r.plan = plan)[1].supply_charge

AddSupplyCharges_FirstCharge(daily, table) ==
  [i \in 1..Len(daily) |->
     [daily[i] EXCEPT
        !.home_plan_costs = Add(@, Val(table[1].supply_charge)),
        !.midday_saver_costs = Add(@, Val(table[1].supply_charge)),
        !.electric_vehicle_add_on_costs =
            Add(@, Val(table[1].supply_charge))]]

AddSupplyCharges(daily, table) ==
  [i \in 1..Len(daily) |->
     [daily[i] EXCEPT
        !.home_plan_costs = Add(@, Val(ChargeOf(table, "home_plan"))),
        !.midday_saver_costs = Add(@, Val(ChargeOf(table, "midday_saver"))),
        !.electric_vehicle_add_on_costs =
            Add(@, Val(ChargeOf(table, "electric_vehicle_add_on")))]]

(***************************************************************************)
(* process_sigenergy_data, lines 110-123                                   *)
(***************************************************************************)
ToDatetimeYMD(n) == <<n \div 10000, (n \div 100) % 100, n % 100>>

SigenergyRow(r) ==
  [index |-> r["index"],
   date |-> ToDatetimeYMD(r["Date"]),
   sig_solar_production |-> r["Daily Solar Production (kWh)"],
   sig_consumption |-> r["Daily Consumption (kWh)"],
   sig_from_grid |-> r["Daily From Grid (kWh)"],
   sig_to_grid |-> r["Daily To Grid (kWh)"],
   from_grid |-> r["Daily From Grid (kWh)"],
   to_grid |-> r["Daily To Grid (kWh)"],
   self_consumption |->
       Sub(r["Daily Consumption (kWh)"], r["Daily From Grid (kWh)"]),
   total_usage |-> r["Daily Consumption (kWh)"]]

ProcessSigenergyFrame(df) == [i \in 1..Len(df) |-> SigenergyRow(df[i])]

(***************************************************************************)
(* lines 162-175: the date-range filter of the two daily tables            *)
(***************************************************************************)
InRange_Exclusive(r, range) ==
  TsLeq(range[1], r.date) /\ TsLess(r.date, range[2])

InRange(r, range) == TsLeq(range[1], r.date) /\ TsLeq(r.date, range[2])

FilterByDateRange(df, range) ==
  SelectSeq(df, LAMBDA r : InRange(r, range))

(***************************************************************************)
(* Inputs: the rows an uploaded usage export and solar export may hold     *)
(***************************************************************************)
Jan02 == <<2, 1, 2024>>
Feb01 == <<1, 2, 2024>>

UsageRow(d, t, billed, unbilled, gen, status) ==
  [Date |-> d, Time |-> t, Generation |-> gen]
    @@ ("Usage already billed" :> billed)
    @@ ("Usage not yet billed" :> unbilled)
    @@ ("Meter reading status" :> status)

RowPool ==
  { UsageRow(Jan02, <<0, Colon, 3, 0>>, NaN, Val(5), Val(2), "Actual"),
    UsageRow(Jan02, <<0, 0, Colon, 3, 0>>, Val(1), Val(0), Val(0), "Estimated"),
    UsageRow(Jan02, <<9, Colon, 3, 0>>, Val(2), NaN, Val(1), "Actual"),
    UsageRow(Jan02, <<1, 0, Colon, 0, 0>>, Val(3), Val(4), NaN, "Actual"),
    UsageRow(Feb01, <<2, 3, Colon, 3, 0>>, NaN, NaN, Val(3), "Actual"),
    UsageRow(Feb01, <<9, Colon, 1, 5>>, Val(2), Val(1), Val(1), "Actual"),
    UsageRow(Feb01, <<2, 4, Colon, 0, 0>>, Val(1), Val(1), NaN, "Actual") }

RequiredColumns == {"Date", "Time", "Generation", "Meter reading status"}
OptionalColumns == {"Usage already billed", "Usage not yet billed"}

UsageFiles ==
  UNION { { [i \in 1..k |-> [c \in RequiredColumns \cup cols |-> rows[i][c]]] :
              rows \in [1..k -> RowPool] } :
          k \in 1..MaxRows, cols \in SUBSET OptionalColumns }

SolarRow(d, prod, cons, from, to) ==
  [Date |-> d]
    @@ ("Daily Solar Production (kWh)" :> prod)
    @@ ("Daily Consumption (kWh)" :> cons)
    @@ ("Daily From Grid (kWh)" :> from)
    @@ ("Daily To Grid (kWh)" :> to)

\* the solar export holds one row per day, in date order
SolarJan02 == SolarRow(20240102, Val(10), Val(8), Val(3), Val(5))
SolarMar01 == SolarRow(20240301, Val(6), Val(9), Val(7), Val(4))

SolarFiles == { <<SolarJan02>>, <<SolarMar01>>, <<SolarJan02, SolarMar01>> }

(***************************************************************************)
(* The script, top to bottom                                               *)
(***************************************************************************)
Init ==
  /\ pc = "upload_synergy"
  /\ uploaded_synergy_files = <<>>
  /\ synergy = <<>>
  /\ uploaded_sigenergy_file = <<>>
  /\ sigenergy = <<>>
  /\ data = <<>>
  /\ supply_charge = <<>>
  /\ tou_costs = <<>>
  /\ data_daily = <<>>
  /\ data_synergy_halfhour = <<>>
  /\ data_synergy_daily = <<>>
  /\ data_sigenergy_daily = <<>>
  /\ input_date_range = <<>>
  /\ data_synergy_daily_filtered = <<>>
  /\ data_sigenergy_daily_filtered = <<>>

\* lines 11-18
UploadSynergy ==
  /\ pc = "upload_synergy"
  /\ \E f \in UsageFiles, n \in 1..MaxFiles :
       /\ uploaded_synergy_files' = Repeat(f, n)
       /\ synergy' = DropDuplicates(Concat(Repeat(f, n)))
  /\ pc' = "upload_sigenergy"
  /\ UNCHANGED <<uploaded_sigenergy_file, sigenergy, data, supply_charge,
                 tou_costs, data_daily, data_synergy_halfhour,
                 data_synergy_daily, data_sigenergy_daily, input_date_range,
                 data_synergy_daily_filtered, data_sigenergy_daily_filtered>>

\* lines 25-34
UploadSigenergy ==
  /\ pc = "upload_sigenergy"
  /\ \E f \in SolarFiles :
       /\ uploaded_sigenergy_file' = <<f>>
       /\ sigenergy' = DropDuplicates(Concat(<<f>>))
  /\ pc' = "combine"
  /\ UNCHANGED <<uploaded_synergy_files, synergy, data, supply_charge,
                 tou_costs, data_daily, data_synergy_halfhour,
                 data_synergy_daily, data_sigenergy_daily, input_date_range,
                 data_synergy_daily_filtered, data_sigenergy_daily_filtered>>

\* lines 42-57 (the missing columns are added to the caller's frame)
CombineUsage ==
  /\ pc = "combine"
  /\ synergy' = AddMissingColumn(
                  AddMissingColumn(synergy, "Usage already billed"),
                  "Usage not yet billed")
  /\ data' = CombineUsageFrame(synergy')
  /\ pc' = "format"
  /\ UNCHANGED <<uploaded_synergy_files, uploaded_sigenergy_file, sigenergy,
                 supply_charge, tou_costs, data_daily, data_synergy_halfhour,
                 data_synergy_daily, data_sigenergy_daily, input_date_range,
                 data_synergy_daily_filtered, data_sigenergy_daily_filtered>>

\* lines 59-62
FormatDateTime ==
  /\ pc = "format"
  /\ data' = FormatFrame(data)
  /\ pc' = "sort"
  /\ UNCHANGED <<uploaded_synergy_files, synergy, uploaded_sigenergy_file,
                 sigenergy, supply_charge, tou_costs, data_daily,
                 data_synergy_halfhour, data_synergy_daily,
                 data_sigenergy_daily, input_date_range,
                 data_synergy_daily_filtered, data_sigenergy_daily_filtered>>

\* line 64
SortByDateTime ==
  /\ pc = "sort"
  /\ data' = SortValues(data)
  /\ pc' = "tariffs"
  /\ UNCHANGED <<uploaded_synergy_files, synergy, uploaded_sigenergy_file,
                 sigenergy, supply_charge, tou_costs, data_daily,
                 data_synergy_halfhour, data_synergy_daily,
                 data_sigenergy_daily, input_date_range,
                 data_synergy_daily_filtered, data_sigenergy_daily_filtered>>

\* lines 66-82
LoadTariffs ==
  /\ pc = "tariffs"
  /\ supply_charge' = SupplyChargeTable
  /\ tou_costs' = TouCostsTable
  /\ pc' = "merge"
  /\ UNCHANGED <<uploaded_synergy_files, synergy, uploaded_sigenergy_file,
                 sigenergy, data, data_daily, data_synergy_halfhour,
                 data_synergy_daily, data_sigenergy_daily, input_date_range,
                 data_synergy_daily_filtered, data_sigenergy_daily_filtered>>

\* lines 84-85
MergeTouCosts ==
  /\ pc = "merge"
  /\ data' = MergeLeft(data, tou_costs)
  /\ pc' = "costs"
  /\ UNCHANGED <<uploaded_synergy_files, synergy, uploaded_sigenergy_file,
                 sigenergy, supply_charge, tou_costs, data_daily,
                 data_synergy_halfhour, data_synergy_daily,
                 data_sigenergy_daily, input_date_range,
                 data_synergy_daily_filtered, data_sigenergy_daily_filtered>>

\* lines 87-91
CalculateCosts ==
  /\ pc = "costs"
  /\ data' = CalculateCostsFrame(data)
  /\ pc' = "daily"
  /\ UNCHANGED <<uploaded_synergy_files, synergy, uploaded_sigenergy_file,
                 sigenergy, supply_charge, tou_costs, data_daily,
                 data_synergy_halfhour, data_synergy_daily,
                 data_sigenergy_daily, input_date_range,
                 data_synergy_daily_filtered, data_sigenergy_daily_filtered>>

\* lines 93-101
DailyAggregation ==
  /\ pc = "daily"
  /\ data_daily' = GroupByDateSum(data)
  /\ pc' = "charges"
  /\ UNCHANGED <<uploaded_synergy_files, synergy, uploaded_sigenergy_file,
                 sigenergy, data, supply_charge, tou_costs,
                 data_synergy_halfhour, data_synergy_daily,
                 data_sigenergy_daily, input_date_range,
                 data_synergy_daily_filtered, data_sigenergy_daily_filtered>>

\* lines 103-108 and the assignment of line 126
ChargeAndReturn ==
  /\ pc = "charges"
  /\ data_daily' = AddSupplyCharges(data_daily, supply_charge)
  /\ data_synergy_halfhour' = data
  /\ data_synergy_daily' = data_daily'
  /\ pc' = "sigenergy"
  /\ UNCHANGED <<uploaded_synergy_files, synergy, uploaded_sigenergy_file,
                 sigenergy, data, supply_charge, tou_costs,
                 data_sigenergy_daily, input_date_range,
                 data_synergy_daily_filtered, data_sigenergy_daily_filtered>>

\* lines 110-123 and 127
ProcessSigenergy ==
  /\ pc = "sigenergy"
  /\ data_sigenergy_daily' = ProcessSigenergyFrame(sigenergy)
  /\ pc' = "filter"
  /\ UNCHANGED <<uploaded_synergy_files, synergy, uploaded_sigenergy_file,
                 sigenergy, data, supply_charge, tou_costs, data_daily,
                 data_synergy_halfhour, data_synergy_daily, input_date_range,
                 data_synergy_daily_filtered, data_sigenergy_daily_filtered>>

\* lines 162-175: the range widget offers any pair of dates, by default the
\* first and last date of the daily table
RangeDates ==
  {data_synergy_daily[i].date : i \in 1..Len(data_synergy_daily)}
    \cup {data_sigenergy_daily[i].date : i \in 1..Len(data_sigenergy_daily)}

FilterDateRange ==
  /\ pc = "filter"
  /\ \E lo \in RangeDates, hi \in RangeDates :
       /\ TsLeq(lo, hi)
       /\ input_date_range' = <<lo, hi>>
  /\ data_synergy_daily_filtered' =
       FilterByDateRange(data_synergy_daily, input_date_range')
  /\ data_sigenergy_daily_filtered' =
       FilterByDateRange(data_sigenergy_daily, input_date_range')
  /\ pc' = "done"
  /\ UNCHANGED <<uploaded_synergy_files, synergy, uploaded_sigenergy_file,
                 sigenergy, data, supply_charge, tou_costs, data_daily,
                 data_synergy_halfhour, data_synergy_daily,
                 data_sigenergy_daily>>

Next ==
  \/ UploadSynergy
  \/ UploadSigenergy
  \/ CombineUsage
  \/ FormatDateTime
  \/ SortByDateTime
  \/ LoadTariffs
  \/ MergeTouCosts
  \/ CalculateCosts
  \/ DailyAggregation
  \/ ChargeAndReturn
  \/ ProcessSigenergy
  \/ FilterDateRange

Spec == Init /\ [][Next]_vars

(***************************************************************************)
(* process_synergy_data as one function of its argument (lines 41-108):    *)
(* the composition of the steps above, returning <<data, data_daily>>      *)
(***************************************************************************)
ProcessSynergyData(df) ==
  LET merged ==
        CalculateCostsFrame(
          MergeLeft(
            SortValues(FormatFrame(CombineUsageFrame(
              AddMissingColumn(AddMissingColumn(df, "Usage already billed"),
                               "Usage not yet billed")))),
            TouCostsTable))
  IN << merged, AddSupplyCharges(GroupByDateSum(merged), SupplyChargeTable) >>

(***************************************************************************)
(* Vocabulary of the properties                                            *)
(***************************************************************************)
Indexed == pc \in {"format", "sort", "tariffs", "merge"}
Formatted == pc = "sort"
Sorted == pc \notin {"upload_synergy", "upload_sigenergy", "combine",
                     "format", "sort"}
TariffsLoaded == pc \notin {"upload_synergy", "upload_sigenergy", "combine",
                            "format", "sort", "tariffs"}
TableInUse == pc \in {"merge", "costs"}
Merged == TariffsLoaded /\ pc # "merge"
Returned == pc = "sigenergy"

\* the uploaded row that carries index label k after the concatenation
RawRow(k) == Flatten(uploaded_synergy_files)[k + 1]

CellOrZero(r, col) ==
  IF col \notin DOMAIN r THEN 0
  ELSE IF r[col] = NaN THEN 0
  ELSE r[col][1]

ExpectedUsage(r) ==
  CellOrZero(r, "Usage already billed") + CellOrZero(r, "Usage not yet billed")

Digit(c) == c \in 0..9

IsHMForm(t) ==
  \/ Len(t) = 4 /\ Digit(t[1]) /\ t[2] = Colon /\ Digit(t[3]) /\ Digit(t[4])
  \/ Len(t) = 5 /\ Digit(t[1]) /\ Digit(t[2]) /\ t[3] = Colon
       /\ Digit(t[4]) /\ Digit(t[5])

CanonicalBuckets ==
  { <<a, b, Colon, c, 0>> : a \in 0..2, b \in 0..9, c \in {0, 3} }
    \ { <<2, b, Colon, c, 0>> : b \in 4..9, c \in {0, 3} }

MinutesOf(t) == (10 * t[1] + t[2]) * 60 + 10 * t[4] + t[5]

IsHalfHourTime(t) ==
  /\ IsHMForm(t)
  /\ LET p == IF Len(t) = 4 THEN <<0>> \o t ELSE t
     IN /\ 10 * p[1] + p[2] <= 23
        /\ <<p[4], p[5]>> \in {<<0, 0>>, <<3, 0>>}

RECURSIVE SumOver(_, _, _)
SumOver(df, I, col) ==
  IF I = {} THEN 0
  ELSE LET i == CHOOSE x \in I : TRUE
       IN (IF IsNa(df[i][col]) THEN 0 ELSE df[i][col][1])
            + SumOver(df, I \ {i}, col)

RowsOfDate(df, d) == {i \in 1..Len(df) : df[i].date = d}

(***************************************************************************)
(* C1: every interval row's syn_usage is billed usage plus unbilled usage, *)
(* a missing value or an absent billed/unbilled column counting as 0, and  *)
(* syn_usage is never missing.  While the rows carry their index label the *)
(* sum is compared row by row with the uploaded row; in the returned table *)
(* (the merge resets the index) the rows with a given (date, time, usage)  *)
(* are as many as the input rows that should produce them.                 *)
(***************************************************************************)
UsageKey(r) == <<r.date, r.time, r.syn_usage>>

ExpectedKey(r) ==
  <<ToDatetimeDMY(r["Date"]),
    IF Len(r["Time"]) = 4 THEN <<0>> \o r["Time"] ELSE r["Time"],
    Val(ExpectedUsage(r))>>

C1_UsageIsBilledPlusUnbilled ==
  /\ Indexed =>
       \A i \in 1..Len(data) :
         data[i].syn_usage = Val(ExpectedUsage(RawRow(data[i].index)))
  /\ Returned =>
       /\ Len(data_synergy_halfhour) = Len(synergy)
       /\ \A i \in 1..Len(data_synergy_halfhour) :
            /\ ~IsNa(data_synergy_halfhour[i].syn_usage)
            /\ Cardinality({j \in 1..Len(data_synergy_halfhour) :
                   UsageKey(data_synergy_halfhour[j])
                     = UsageKey(data_synergy_halfhour[i])})
               = Cardinality({j \in 1..Len(synergy) :
                   ExpectedKey(synergy[j])
                     = UsageKey(data_synergy_halfhour[i])})

\* a returned table for an upload with billed missing and unbilled 5, and
\* one for an upload without the billed column
C1_Witness ==
  /\ Returned
  /\ \E r \in {uploaded_synergy_files[1][k] :
                 k \in 1..Len(uploaded_synergy_files[1])} :
       /\ OptionalColumns \subseteq DOMAIN r
       /\ r["Usage already billed"] = NaN
       /\ r["Usage not yet billed"] = Val(5)
       /\ \E i \in 1..Len(data_synergy_halfhour) :
            /\ data_synergy_halfhour[i].time = <<0, 0, Colon, 3, 0>>
            /\ data_synergy_halfhour[i].syn_usage = Val(5)

(***************************************************************************)
(* C2: for every date and plan, the returned daily cost minus the plan's   *)
(* supply charge is the sum of the plan's per-interval costs of that date, *)
(* whatever the order and number of the rows; the daily feed-in value is   *)
(* the plain sum; every date has exactly one daily row; and processing the *)
(* rows in the reverse order gives the same daily table.                   *)
(***************************************************************************)
Reverse(s) == [i \in 1..Len(s) |-> s[Len(s) + 1 - i]]

C2_DailyAggregationAdditive ==
  Returned =>
    /\ \A i \in 1..Len(data_synergy_halfhour) :
         Cardinality({k \in 1..Len(data_synergy_daily) :
            data_synergy_daily[k].date = data_synergy_halfhour[i].date}) = 1
    /\ \A k \in 1..Len(data_synergy_daily) :
         LET r == data_synergy_daily[k]
             I == RowsOfDate(data_synergy_halfhour, r.date)
         IN /\ I # {}
            /\ r.home_plan_costs =
                 Val(SumOver(data_synergy_halfhour, I, "home_plan_costs")
                       + HomePlanCharge)
            /\ r.midday_saver_costs =
                 Val(SumOver(data_synergy_halfhour, I, "midday_saver_costs")
                       + MiddaySaverCharge)
            /\ r.electric_vehicle_add_on_costs =
                 Val(SumOver(data_synergy_halfhour, I,
                             "electric_vehicle_add_on_costs")
                       + EvAddOnCharge)
            /\ r.debs_feed_in_tariff =
                 Val(SumOver(data_synergy_halfhour, I, "debs_feed_in_tariff"))
    /\ data_synergy_daily = ProcessSynergyData(Reverse(synergy))[2]

\* a date with two priced intervals given out of chronological order
C2_Witness ==
  /\ Returned
  /\ Len(synergy) = 2
  /\ synergy[1]["Time"] = <<1, 0, Colon, 0, 0>>
  /\ synergy[2]["Time"] = <<9, Colon, 3, 0>>
  /\ Len(data_synergy_daily) = 1
  /\ data_synergy_daily[1].home_plan_costs
       = Val(HomePlanRate * 7 + HomePlanRate * 2 + HomePlanCharge)

(***************************************************************************)
(* C3: the tariff table has exactly 48 rows, its time keys are pairwise    *)
(* distinct 5-character strings and are exactly the half-hour buckets      *)
(* 00:00 .. 23:30 in ascending order; so the left join matches at most one *)
(* tariff row per interval and returns one row per input row.  The table   *)
(* is examined where the join reads it and right after the join.           *)
(***************************************************************************)
C3_TariffTableKeys ==
  /\ TableInUse =>
       /\ Len(tou_costs) = 48
       /\ \A k \in 1..Len(tou_costs) : Len(tou_costs[k].time) = 5
       /\ \A k \in 1..(Len(tou_costs) - 1) :
            StrLess(tou_costs[k].time, tou_costs[k + 1].time)
       /\ {tou_costs[k].time : k \in 1..Len(tou_costs)} = CanonicalBuckets
       /\ tou_costs[1].time = <<0, 0, Colon, 0, 0>>
       /\ tou_costs[Len(tou_costs)].time = <<2, 3, Colon, 3, 0>>
       /\ \A i \in 1..Len(data) :
            Cardinality({k \in 1..Len(tou_costs) :
                           tou_costs[k].time = data[i].time}) <= 1
  /\ Merged => Len(data) = Len(synergy)

\* the join has run over two intervals, one with a tariff row, one without
C3_Witness ==
  /\ pc = "costs"
  /\ Len(data) = 2
  /\ \E i \in 1..2 : ~IsNa(data[i].home_plan)
  /\ \E i \in 1..2 : IsNa(data[i].home_plan)

(***************************************************************************)
(* C4 (as stated): time normalization leaves a 5-character string as it    *)
(* is, prepends exactly one '0' to a 4-character string, is idempotent,    *)
(* and maps every raw time of the form H:MM or HH:MM to one of the 48      *)
(* canonical buckets.                                                      *)
(***************************************************************************)
NormalizationShape(raw, t) ==
  /\ Len(raw) = 5 => t = raw
  /\ Len(raw) = 4 => (Len(t) = 5 /\ t[1] = 0 /\ SubSeq(t, 2, 5) = raw)
  /\ NormalizeTime(t) = t

C4_Original ==
  Formatted =>
    \A i \in 1..Len(data) :
      LET raw == RawRow(data[i].index)["Time"]
      IN /\ NormalizationShape(raw, data[i].time)
         /\ IsHMForm(raw) => data[i].time \in CanonicalBuckets

(***************************************************************************)
(* C4 (amended): the same, the result being a canonical bucket for every   *)
(* raw time H:MM or HH:MM whose hour is 0..23 and whose minutes are 00 or  *)
(* 30; any other H:MM or HH:MM time is padded and kept as it is.           *)
(***************************************************************************)
C4_TimeNormalization ==
  Formatted =>
    \A i \in 1..Len(data) :
      LET raw == RawRow(data[i].index)["Time"]
      IN /\ NormalizationShape(raw, data[i].time)
         /\ IsHalfHourTime(raw) => data[i].time \in CanonicalBuckets
         /\ IsHMForm(raw) => (Len(data[i].time) = 5 /\ IsHMForm(data[i].time))

\* a 4-character and a 5-character raw time have been normalized
C4_Witness ==
  /\ pc = "sort"
  /\ Len(data) = 2
  /\ RawRow(data[1].index)["Time"] = <<0, Colon, 3, 0>>
  /\ data[1].time = <<0, 0, Colon, 3, 0>>
  /\ RawRow(data[2].index)["Time"] = <<1, 0, Colon, 0, 0>>
  /\ data[2].time = <<1, 0, Colon, 0, 0>>

(***************************************************************************)
(* C5: when the same usage file is uploaded twice, the concatenation with  *)
(* exact duplicates dropped holds the rows of the upload of one copy, and  *)
(* process_synergy_data returns the same interval-level and daily-level    *)
(* tables as for one copy.                                                 *)
(***************************************************************************)
SingleCopy == DropDuplicates(Concat(<<uploaded_synergy_files[1]>>))

C5_DuplicateUploadRoundTrip ==
  /\ (pc = "upload_sigenergy" /\ Len(uploaded_synergy_files) = 2) =>
       /\ Len(synergy) = Len(SingleCopy)
       /\ \A i \in 1..Len(synergy) :
            \A c \in DOMAIN SingleCopy[i] : synergy[i][c] = SingleCopy[i][c]
  /\ (Returned /\ Len(uploaded_synergy_files) = 2) =>
       /\ <<data_synergy_halfhour, data_synergy_daily>>
            = ProcessSynergyData(SingleCopy)

\* two copies of a two-row file have been processed
C5_Witness ==
  /\ Returned
  /\ Len(uploaded_synergy_files) = 2
  /\ uploaded_synergy_files[1] = uploaded_synergy_files[2]
  /\ Len(uploaded_synergy_files[1]) = 2
  /\ Len(data_synergy_halfhour) = 2

Selected(r) ==
  /\ TsLeq(input_date_range[1], r.date)
  /\ TsLeq(r.date, input_date_range[2])

SolarFields ==
  {"sig_solar_production", "sig_consumption", "sig_from_grid", "sig_to_grid",
   "from_grid", "to_grid", "self_consumption", "total_usage"}

Unpriced(d) ==
  \A i \in RowsOfDate(data_synergy_halfhour, d) :
    /\ IsNa(data_synergy_halfhour[i].home_plan)
    /\ IsNa(data_synergy_halfhour[i].home_plan_costs)
    /\ IsNa(data_synergy_halfhour[i].midday_saver_costs)
    /\ IsNa(data_synergy_halfhour[i].electric_vehicle_add_on_costs)
    /\ IsNa(data_synergy_halfhour[i].debs_feed_in_tariff)

C7_Original ==
  Returned =>
    \A k \in 1..Len(data_synergy_daily) :
      Unpriced(data_synergy_daily[k].date) =>
        /\ data_synergy_daily[k].home_plan_costs = Val(0)
        /\ data_synergy_daily[k].midday_saver_costs = Val(0)
        /\ data_synergy_daily[k].electric_vehicle_add_on_costs = Val(0)
        /\ data_synergy_daily[k].debs_feed_in_tariff = Val(0)

(***************************************************************************)
(* C7 (amended): such a date does not fail the run; its daily record has a *)
(* feed-in value of zero and, for each of the three plans, a cost equal to *)
(* that plan's fixed supply charge (the usage part of the cost is zero).   *)
(***************************************************************************)
C7_UnpricedDayCostsSupplyCharge ==
  /\ pc \in {"charges", "sigenergy", "filter", "done"} =>
       \A i \in 1..Len(data) :
         \E k \in 1..Len(data_daily) : data_daily[k].date = data[i].date
  /\ Returned =>
       \A k \in 1..Len(data_synergy_daily) :
         Unpriced(data_synergy_daily[k].date) =>
           /\ data_synergy_daily[k].home_plan_costs = Val(HomePlanCharge)
           /\ data_synergy_daily[k].midday_saver_costs
                = Val(MiddaySaverCharge)
           /\ data_synergy_daily[k].electric_vehicle_add_on_costs
                = Val(EvAddOnCharge)
           /\ data_synergy_daily[k].debs_feed_in_tariff = Val(0)

\* a returned daily record for a date whose two intervals are both unpriced
C7_Witness ==
  /\ Returned
  /\ \E k \in 1..Len(data_synergy_daily) :
       /\ Unpriced(data_synergy_daily[k].date)
       /\ Cardinality(RowsOfDate(data_synergy_halfhour,
                                 data_synergy_daily[k].date)) = 2

(***************************************************************************)
(* C8: numbering the 48 buckets 1..48 from 00:00, the midday-saver column  *)
(* carries the off-peak rate in buckets 1-18, the midday discount rate in  *)
(* 19-30, the peak rate in 31-42 and the off-peak rate again in 43-48      *)
(* (the table as the join reads it).                                       *)
(***************************************************************************)
BucketNumber(t) == MinutesOf(t) \div 30 + 1

C8_MiddaySaverBands ==
  TableInUse =>
    /\ {BucketNumber(tou_costs[k].time) : k \in 1..Len(tou_costs)} = 1..48
    /\ \A k \in 1..Len(tou_costs) :
         LET b == BucketNumber(tou_costs[k].time)
         IN /\ b \in 1..18 => tou_costs[k].midday_saver = Val(236916)
            /\ b \in 19..30 => tou_costs[k].midday_saver = Val(86151)
            /\ b \in 31..42 => tou_costs[k].midday_saver = Val(538446)
            /\ b \in 43..48 => tou_costs[k].midday_saver = Val(236916)
    /\ Cardinality(1..18) + Cardinality(19..30) + Cardinality(31..42)
         + Cardinality(43..48) = Len(tou_costs)

\* an interval of bucket 21 (10:00) has been priced at the midday discount
C8_Witness ==
  /\ pc = "done"
  /\ \E i \in 1..Len(data_synergy_halfhour) :
       /\ data_synergy_halfhour[i].time = <<1, 0, Colon, 0, 0>>
       /\ data_synergy_halfhour[i].midday_saver = Val(86151)

(***************************************************************************)
(* C9 (as stated): the EV add-on column is made of five maximal runs of    *)
(* equal rate, with the midday-saver boundaries and one more boundary 2    *)
(* buckets before the end.                                                 *)
(***************************************************************************)
Boundaries(col) ==
  {k \in 1..(Len(tou_costs) - 1) : tou_costs[k][col] # tou_costs[k + 1][col]}

Bands(col) == Cardinality(Boundaries(col)) + 1

C9_Original ==
  TableInUse =>
    /\ Bands("electric_vehicle_add_on") = 5
    /\ Boundaries("midday_saver") \subseteq Boundaries("electric_vehicle_add_on")
    /\ (Len(tou_costs) - 2) \in Boundaries("electric_vehicle_add_on")

(***************************************************************************)
(* C9 (amended): the EV add-on column is made of six maximal runs of equal *)
(* rate (buckets 1-12, 13-18, 19-30, 31-42, 43-46, 47-48); its boundaries  *)
(* are the three midday-saver boundaries (after buckets 18, 30, 42), one   *)
(* after bucket 12 and one 2 buckets before the end (after bucket 46).     *)
(***************************************************************************)
C9_EvAddOnBands ==
  TableInUse =>
    /\ Bands("electric_vehicle_add_on") = 6
    /\ Boundaries("midday_saver") = {18, 30, 42}
    /\ Boundaries("electric_vehicle_add_on")
         = Boundaries("midday_saver") \cup {12, Len(tou_costs) - 2}
    /\ \A k \in 1..Len(tou_costs) :
         tou_costs[k].electric_vehicle_add_on =
           IF k \in (1..12) \cup (47..48) THEN Val(193841)
           ELSE tou_costs[k].midday_saver

\* an interval of the last band (23:30) has been priced at the EV rate
C9_Witness ==
  /\ pc = "done"
  /\ \E i \in 1..Len(data_synergy_halfhour) :
       /\ data_synergy_halfhour[i].time = <<2, 3, Colon, 3, 0>>
       /\ data_synergy_halfhour[i].electric_vehicle_add_on = Val(193841)
       /\ data_synergy_halfhour[i].midday_saver = Val(236916)

(***************************************************************************)
(* C10: after the sort, also after the tariff join and in the returned     *)
(* table, the interval rows are in ascending order of (date, time string); *)
(* for times that came from H:MM or HH:MM strings this is chronological    *)
(* order within a date.                                                    *)
(***************************************************************************)
C10_SortedByDateTime ==
  Sorted =>
    /\ \A i \in 1..(Len(data) - 1) :
         \/ TsLess(data[i].date, data[i + 1].date)
         \/ /\ data[i].date = data[i + 1].date
            /\ ~StrLess(data[i + 1].time, data[i].time)
            /\ (IsHMForm(data[i].time) /\ IsHMForm(data[i + 1].time)) =>
                 MinutesOf(data[i].time) <= MinutesOf(data[i + 1].time)
    /\ pc \in {"sigenergy", "filter", "done"} => data_synergy_halfhour = data

\* 10:00 was uploaded before 9:30 of the same date, and 9:30 comes first
C10_Witness ==
  /\ pc = "done"
  /\ Len(synergy) = 2
  /\ synergy[1]["Time"] = <<1, 0, Colon, 0, 0>>
  /\ synergy[2]["Time"] = <<9, Colon, 3, 0>>
  /\ data_synergy_halfhour[1].time = <<0, 9, Colon, 3, 0>>
  /\ data_synergy_halfhour[2].time = <<1, 0, Colon, 0, 0>>

====
